---- MODULE Spec2Model ----
(***************************************************************************)
(* Model of vskernels/kernels/complex.py: the linear-light wrapper         *)
(* (_BaseLinearOperation._linear_op), the keep-aspect-ratio parameter      *)
(* resolver and crop corrector (KeepArScaler) and their composition        *)
(* (ComplexScaler / ComplexKernel).                                        *)
(*                                                                         *)
(* Numbers.  Python computes the geometry in binary floating point; the    *)
(* model computes it in exact rational arithmetic.  A rational is a pair   *)
(* <<n, d>> in lowest terms with d > 0, so that equality of pairs is       *)
(* equality of values.                                                     *)
(***************************************************************************)
EXTENDS Integers, Sequences, FiniteSets, TLC

\* ------------------------------------------------------------------ bounds
MaxDim == 2      \* clip and target dimensions range over 1..MaxDim
MaxCalls == 2    \* number of successive scale calls fed back into each other

\* ------------------------------------------------------- exact arithmetic
Abs(x) == IF x < 0 THEN -x ELSE x

RECURSIVE GCD(_, _)
GCD(a, b) == IF b = 0 THEN a ELSE GCD(b, a % b)

Rat(n, d) ==
    LET g == GCD(Abs(n), Abs(d))
        s == IF d < 0 THEN -1 ELSE 1
    IN  <<(s * n) \div g, (s * d) \div g>>

Int2Rat(n) == <<n, 1>>
Zero == <<0, 1>>
RatOne == <<1, 1>>
RAdd(a, b) == Rat(a[1] * b[2] + b[1] * a[2], a[2] * b[2])
RSub(a, b) == Rat(a[1] * b[2] - b[1] * a[2], a[2] * b[2])
RMul(a, b) == Rat(a[1] * b[1], a[2] * b[2])
RDiv(a, b) == Rat(a[1] * b[2], a[2] * b[1])
RLt(a, b) == a[1] * b[2] < b[1] * a[2]
RGt(a, b) == RLt(b, a)
RLe(a, b) == ~RLt(b, a)

\* ------------------------------------------------- Python values and dicts
\* A sar/dar argument: None, True, False, a Sar/Dar instance, or a number.
PNone == [kind |-> "None", v |-> Zero]
PTrue == [kind |-> "True", v |-> Zero]
PFalse == [kind |-> "False", v |-> Zero]
Xar(r) == [kind |-> "Xar", v |-> r]
PFloat(r) == [kind |-> "float", v |-> r]
PBool(b) == IF b THEN PTrue ELSE PFalse

\* Sar.from_float / Dar.from_float: the number becomes an instance of the class.
from_float(value) == Xar(value.v)

\* dict helpers: a dict is a function whose domain is the set of its keys
Has(d, k) == k \in DOMAIN d
Get(d, k, default) == IF Has(d, k) THEN d[k] ELSE default
Del(d, k) == [x \in (DOMAIN d) \ {k} |-> d[x]]
Put(d, k, val) == [x \in (DOMAIN d) \cup {k} |-> IF x = k THEN val ELSE d[x]]
\* kwargs.setdefault(key, kwargs.pop(alias, default))
SetDefaultPop(d, key, alias, default) ==
    LET popped == Get(d, alias, default)
        rest == Del(d, alias)
    IN  IF Has(rest, key) THEN rest ELSE Put(rest, key, popped)

\* ------------------------------------------------------------ _from_param
_from_param(value, fallback) ==
    IF value.kind = "False" THEN fallback
    ELSE IF value.kind = "True" THEN PNone
    ELSE IF value.kind = "Xar" THEN value
    ELSE IF value.kind = "float" THEN from_float(value)
    ELSE PNone

\* Python's `x or y` on an optional Fraction: None and 0 are falsy.
OrElse(x, y) == IF x.kind = "None" \/ x.v = Zero THEN y ELSE x.v

\* ------------------------------------------- external value types (vstools)
\* A clip exposes width, height, the SAR stored in its frame properties and
\* the light representation its samples are in.
Sar_from_clip(c) == c.sar
\* Dar.from_size(clip, False): the clip's resolution, square pixels assumed
Dar_from_size_clip(c) == Rat(c.width, c.height)
\* Dar.from_size(width, height)
Dar_from_size(width, height) == Rat(width, height)

\* ------------------------------------------ KeepArScaler._get_kwargs_keep_ar
\* line 99: None not in {kwargs.get(x) for x in ('keep_ar', 'sar', 'dar')};
\* keep_ar is a bool and so never None.
WarnCondition(sar, dar, keep_ar) ==
    PNone \notin {PBool(keep_ar), sar, dar}

\* an unset axis left unset
DefaultAxisUnset(value, default_val) == value

\* lines 106-108: an unset axis takes the value of keep_ar
DefaultAxis(value, default_val) ==
    IF value = PNone THEN PBool(default_val) ELSE value

_get_kwargs_keep_ar(sar, dar, keep_ar, kwargs) ==
    LET merged == Put(Put(kwargs, "sar", sar), "dar", dar)
    IN  [kwargs |-> Put(Put(merged, "sar", DefaultAxis(merged["sar"], keep_ar)),
                        "dar", DefaultAxis(merged["dar"], keep_ar)),
         warned |-> WarnCondition(sar, dar, keep_ar)]

\* ----------------------------------- KeepArScaler._handle_crop_resize_kwargs
\* lines 116-119: the crop window the caller passed, aliases and defaults applied
CropDefaults(c, shift, kwargs) ==
    LET k1 == SetDefaultPop(kwargs, "src_top", "sy", shift[1])
        k2 == SetDefaultPop(k1, "src_left", "sx", shift[2])
        k3 == SetDefaultPop(k2, "src_width", "sw", Int2Rat(c.width))
    IN  SetDefaultPop(k3, "src_height", "sh", Int2Rat(c.height))

\* line 123
SrcSar(c, sar) == OrElse(_from_param(sar, Xar(RatOne)), Sar_from_clip(c))

\* Dar.from_size(clip): the clip's SAR multiplied in
SrcDarWithSar(c) == RMul(Dar_from_size_clip(c), Sar_from_clip(c))

\* line 126
SrcDar(c) == Dar_from_size_clip(c)

\* line 127
DarParam(dar, src_dar, width, height) ==
    OrElse(_from_param(dar, Xar(src_dar)), Dar_from_size(width, height))

\* lines 129-133: with non-square source pixels the target DAR is recomputed
OutDar(dar, src_sar, src_dar, width, height) ==
    IF src_sar # RatOne
    THEN IF RGt(src_sar, RatOne)
         THEN RDiv(RDiv(Int2Rat(width), src_sar), Int2Rat(height))
         ELSE RDiv(Int2Rat(width), RMul(Int2Rat(height), src_sar))
    ELSE DarParam(dar, src_dar, width, height)

\* lines 124, 135: Sar(1, 1) or None
OutSar(src_sar) == IF src_sar # RatOne THEN Xar(RatOne) ELSE PNone

\* the comparison turned round
TrimAxisSwapped(src_dar, out_dar) == IF RLt(src_dar, out_dar) THEN "width" ELSE "height"

\* lines 138-143: the axis that is adjusted
TrimAxis(src_dar, out_dar) == IF RGt(src_dar, out_dar) THEN "width" ELSE "height"

\* lines 141, 145
FixCrop(axis, res_width, res_height, out_dar) ==
    IF axis = "width"
    THEN RSub(res_width, RMul(res_height, out_dar))
    ELSE RSub(res_height, RDiv(res_width, out_dar))

\* the whole excess taken as the shift
FixShiftWhole(fix_crop) == fix_crop

\* line 147
FixShift(fix_crop) == RDiv(fix_crop, Int2Rat(2))

\* the excess taken off both extents
ApplyFixBoth(kwargs, src_shift, src_window, fix_shift, fix_crop) ==
    [k \in DOMAIN kwargs |->
        IF k = src_shift THEN RAdd(kwargs[k], fix_shift)
        ELSE IF k \in {"src_width", "src_height"} THEN RSub(kwargs[k], fix_crop)
        ELSE kwargs[k]]

\* the halved excess taken off the extent
ApplyFixHalf(kwargs, src_shift, src_window, fix_shift, fix_crop) ==
    [k \in DOMAIN kwargs |->
        IF k = src_shift THEN RAdd(kwargs[k], fix_shift)
        ELSE IF k = src_window THEN RSub(kwargs[k], fix_shift)
        ELSE kwargs[k]]

\* lines 149-150
ApplyFix(kwargs, src_shift, src_window, fix_shift, fix_crop) ==
    [k \in DOMAIN kwargs |->
        IF k = src_shift THEN RAdd(kwargs[k], fix_shift)
        ELSE IF k = src_window THEN RSub(kwargs[k], fix_crop)
        ELSE kwargs[k]]

_handle_crop_resize_kwargs(c, width, height, shift, sar, dar, kwargs0) ==
    LET kwargs == CropDefaults(c, shift, kwargs0)
        src_sar == SrcSar(c, sar)
        src_dar == SrcDar(c)
        out_dar == OutDar(dar, src_sar, src_dar, width, height)
        axis == IF src_dar # out_dar THEN TrimAxis(src_dar, out_dar) ELSE "none"
        fix_crop == IF axis = "none" THEN Zero
                    ELSE FixCrop(axis, kwargs["src_width"], kwargs["src_height"], out_dar)
        fixed == IF axis = "none" THEN kwargs
                 ELSE IF axis = "width"
                      THEN ApplyFix(kwargs, "src_left", "src_width", FixShift(fix_crop), fix_crop)
                      ELSE ApplyFix(kwargs, "src_top", "src_height", FixShift(fix_crop), fix_crop)
    IN  [kwargs |-> Del(Del(fixed, "src_top"), "src_left"),
         out_shift |-> <<fixed["src_top"], fixed["src_left"]>>,
         out_sar |-> OutSar(src_sar),
         \* the locals of the call, kept for the properties
         window_in |-> [k \in {"src_top", "src_left", "src_width", "src_height"} |-> kwargs[k]],
         src_sar |-> src_sar, src_dar |-> src_dar, out_dar |-> out_dar,
         axis |-> axis, fix_crop |-> fix_crop]

\* ------------------------------------------------ _BaseLinearOperation
\* Python truthiness of a linear/sigmoid value: False, True or a (low, high) pair
Truthy(x) == x # "False"

\* line 52: hasattr(self, '_linear_<op>')
HasCustomOp(inst) == inst.custom

\* line 54: sigmoid = self.orig_kwargs.get('sigmoid', sigmoid)
EffectiveSigmoid(orig_kwargs, sigmoid) == Get(orig_kwargs, "sigmoid", sigmoid)

\* sigmoid not forcing linear
EffectiveLinearNoSigmoid(orig_kwargs, linear, sigmoid) ==
    Truthy(Get(orig_kwargs, "linear", "False")) \/ Truthy(linear)

\* line 55: linear = self.orig_kwargs.get('linear', False) or linear or not not sigmoid
EffectiveLinear(orig_kwargs, linear, sigmoid) ==
    Truthy(Get(orig_kwargs, "linear", "False")) \/ Truthy(linear) \/ Truthy(sigmoid)

\* `or` in place of `and`
CallsDirectlyEither(linear, has_custom_op) == ~linear \/ ~has_custom_op

\* line 57: the wrapped operation is called directly
CallsDirectly(linear, has_custom_op) == ~linear /\ ~has_custom_op

\* LinearLight.__enter__ / ll.linear: the clip in the linear-light representation
LinearLight_enter(c, linear, sigmoid, fmt) ==
    [open |-> TRUE, linear |-> linear, sigmoid |-> sigmoid, fmt |-> fmt,
     space |-> c.space,
     frame |-> [c EXCEPT !.space = IF linear THEN "linear" ELSE @]]

\* LinearLight.__exit__ / ll.out: the processed clip converted back
LinearLight_out(scope) == [scope.frame EXCEPT !.space = scope.space]

NoScope ==
    [open |-> FALSE, linear |-> FALSE, sigmoid |-> "False", fmt |-> Zero,
     space |-> "gamma",
     frame |-> [width |-> 0, height |-> 0, sar |-> RatOne, space |-> "gamma"]]

\* ------------------------------------------------------------------ inputs
EmptyDict == [k \in {} |-> Zero]
Merge(a, b) == [k \in (DOMAIN a) \cup (DOMAIN b) |-> IF k \in DOMAIN a THEN a[k] ELSE b[k]]
Dict1(k, val) == [x \in {k} |-> val]
Dict2(k1, v1, k2, v2) == Merge(Dict1(k1, v1), Dict1(k2, v2))

Dims == 1..MaxDim
ClipSars == {RatOne, <<8, 9>>}
Clips == {[width |-> w, height |-> h, sar |-> s, space |-> "gamma"] :
            w \in Dims, h \in Dims, s \in ClipSars}
SarArgs == {PNone, PTrue, PFalse, Xar(<<2, 1>>), PFloat(<<1, 2>>)}
DarArgs == {PNone, PTrue, PFalse, Xar(<<2, 1>>), PFloat(<<1, 1>>)}

\* the caller's crop window: nothing, src_width/src_height, the sw/sh aliases,
\* or a key together with its alias
SizeKwargs ==
    {EmptyDict}
    \cup {Dict2("src_width", Int2Rat(w), "src_height", Int2Rat(h)) : w \in Dims, h \in Dims}
    \cup {Dict2("sw", Int2Rat(MaxDim), "sh", RatOne),
          Dict2("src_width", RatOne, "sw", Int2Rat(MaxDim))}
\* the caller's shift, crop origin and crop window
Shifted == <<<<1, 2>>, <<1, 4>>>>
Origin == Dict2("src_left", RatOne, "sy", <<3, 4>>)
CropKwargs ==
    {[shift |-> sh, kwargs |-> size] : sh \in {<<Zero, Zero>>, Shifted}, size \in SizeKwargs}
    \cup {[shift |-> Shifted, kwargs |-> Merge(Origin, size)] :
            size \in {EmptyDict, Dict2("sw", Int2Rat(MaxDim), "src_height", RatOne)}}

\* the two scenarios of the documentation
ScenarioCalls ==
    {[clip |-> [width |-> 720, height |-> 480, sar |-> <<8, 9>>, space |-> "gamma"],
      width |-> 1280, height |-> 720],
     [clip |-> [width |-> 1920, height |-> 1080, sar |-> RatOne, space |-> "gamma"],
      width |-> 1920, height |-> 800]}

GenericCalls ==
    {[clip |-> c, width |-> w, height |-> h] : c \in Clips, w \in Dims, h \in Dims}

\* ------------------------------------------------------------------- state
VARIABLES
    self,       \* the kernel instance: class, orig_kwargs, _linear_scale defined
    clip,       \* the clip the caller passed
    args,       \* the arguments of the call
    calls,      \* number of scale calls made so far
    pc,         \* position in the call
    ret,        \* who called KeepArScaler.scale: "top", "direct" or "scope"
    frame,      \* the clip the wrapped operation runs on, then its result
    kwargs,     \* the keyword dict as the call transforms it
    shift,      \* the shift as the call transforms it
    out_sar,    \* the output SAR tag, or None
    loc,        \* locals of the last _handle_crop_resize_kwargs
    warned,     \* the resolver printed its warning in this call
    ll,         \* the LinearLight scope
    resampled,  \* arguments of the scale_function invocations of this call
    trace,      \* the steps of this call, in order
    first,      \* what the first call's corrector returned
    out         \* the clip returned to the caller

vars == <<self, clip, args, calls, pc, ret, frame, kwargs, shift, out_sar, loc,
          warned, ll, resampled, trace, first, out>>

NoLoc ==
    [window_in |-> EmptyDict, src_sar |-> RatOne, src_dar |-> RatOne,
     out_dar |-> RatOne, axis |-> "none", fix_crop |-> Zero]
NoFirst == [kwargs |-> EmptyDict, out_shift |-> <<Zero, Zero>>, out_dar |-> RatOne]
NoClip == [width |-> 0, height |-> 0, sar |-> RatOne, space |-> "gamma"]

InitCall(inst, call, a, start) ==
    /\ self = inst
    /\ clip = call.clip
    /\ args = a
    /\ calls = 1
    /\ pc = start
    /\ ret = "top"
    /\ frame = call.clip
    /\ kwargs = a.kwargs
    /\ shift = a.shift
    /\ out_sar = PNone
    /\ loc = NoLoc
    /\ warned = FALSE
    /\ ll = NoScope
    /\ resampled = <<>>
    /\ trace = <<>>
    /\ first = NoFirst
    /\ out = NoClip

\* A KeepArScaler instance called through KeepArScaler.scale
Init ==
    \E call \in GenericCalls \cup ScenarioCalls, sar \in SarArgs, dar \in DarArgs,
       keep_ar \in BOOLEAN, crop \in CropKwargs :
        /\ call \in ScenarioCalls => crop.kwargs = EmptyDict
        /\ InitCall([cls |-> "KeepArScaler", orig_kwargs |-> EmptyDict, custom |-> FALSE],
                    call,
                    [width |-> call.width, height |-> call.height, shift |-> crop.shift,
                     sar |-> sar, dar |-> dar, keep_ar |-> keep_ar,
                     kwargs |-> crop.kwargs,
                     linear |-> "False", sigmoid |-> "False"],
                    "scale")

\* A ComplexScaler instance, constructed with or without linear/sigmoid
\* keyword arguments, called through the scale that _linear_op('scale') built
OrigKwargs ==
    {Merge(l, sg) :
        l \in {EmptyDict, Dict1("linear", "False"), Dict1("linear", "True")},
        sg \in {EmptyDict, Dict1("sigmoid", "False"), Dict1("sigmoid", "True"),
                Dict1("sigmoid", "pair")}}

InitLinear ==
    \E call \in ScenarioCalls, orig \in OrigKwargs, custom \in BOOLEAN,
       linear \in {"False", "True"}, sigmoid \in {"False", "True", "pair"},
       keep_ar \in BOOLEAN, fmt \in {EmptyDict, Dict1("format", RatOne)} :
        InitCall([cls |-> "ComplexScaler", orig_kwargs |-> orig, custom |-> custom],
                 call,
                 [width |-> call.width, height |-> call.height, shift |-> <<Zero, Zero>>,
                  sar |-> PNone, dar |-> PNone, keep_ar |-> keep_ar,
                  kwargs |-> fmt, linear |-> linear, sigmoid |-> sigmoid],
                 "linear_op")

\* ----------------------------------------------------------------- actions
\* The clip a resample returns: the requested size, the properties of its input
Resampled(c, width, height) == [c EXCEPT !.width = width, !.height = height]

\* Sar.apply: the clip tagged with the SAR
Sar_apply(tag, c) == [c EXCEPT !.sar = tag.v]

\* if out_sar: (a Fraction is truthy when it is not 0)
TagSet(tag) == tag.kind # "None" /\ tag.v # Zero

\* _linear_op.func, lines 52-58: no linear mode and no _linear_scale, so
\* super().scale is called on the clip as it is
LinearOpDirect ==
    /\ pc = "linear_op"
    /\ LET sigmoid == EffectiveSigmoid(self.orig_kwargs, args.sigmoid)
           linear == EffectiveLinear(self.orig_kwargs, args.linear, sigmoid)
       IN  CallsDirectly(linear, HasCustomOp(self))
    /\ frame' = clip
    /\ ret' = "direct"
    /\ pc' = "scale"
    /\ UNCHANGED <<self, clip, args, calls, kwargs, shift, out_sar, loc, warned, ll,
                   resampled, trace, first, out>>

\* _linear_op.func, lines 52-61: the LinearLight scope is entered and the
\* operation (super().scale, or _linear_scale when defined) runs on ll.linear
LinearOpScoped ==
    /\ pc = "linear_op"
    /\ LET sigmoid == EffectiveSigmoid(self.orig_kwargs, args.sigmoid)
           linear == EffectiveLinear(self.orig_kwargs, args.linear, sigmoid)
           scope == LinearLight_enter(clip, linear, sigmoid, Get(kwargs, "format", Zero))
       IN  /\ ~CallsDirectly(linear, HasCustomOp(self))
           /\ ll' = scope
           /\ frame' = scope.frame
    /\ kwargs' = Del(kwargs, "format")
    /\ trace' = Append(trace, "enter")
    /\ ret' = "scope"
    /\ pc' = IF HasCustomOp(self) THEN "custom" ELSE "scale"
    /\ UNCHANGED <<self, clip, args, calls, shift, out_sar, loc, warned, resampled,
                   first, out>>

\* the kernel's own _linear_scale, run inside the scope
CustomOp ==
    /\ pc = "custom"
    /\ frame' = Resampled(frame, args.width, args.height)
    /\ trace' = Append(trace, "custom")
    /\ pc' = "returned"
    /\ UNCHANGED <<self, clip, args, calls, ret, kwargs, shift, out_sar, loc, warned, ll,
                   resampled, first, out>>

\* lines 61-63: ll.linear = result, the scope is left, ll.out is returned
ScopeExit ==
    /\ pc = "returned"
    /\ ret = "scope"
    /\ ll' = [ll EXCEPT !.frame = frame, !.open = FALSE]
    /\ out' = LinearLight_out(ll')
    /\ trace' = Append(trace, "exit")
    /\ pc' = "done"
    /\ UNCHANGED <<self, clip, args, calls, ret, frame, kwargs, shift, out_sar, loc,
                   warned, resampled, first>>

\* KeepArScaler.scale, lines 162-164
GetKwargsKeepAr ==
    /\ pc = "scale"
    /\ LET r == _get_kwargs_keep_ar(args.sar, args.dar, args.keep_ar, kwargs)
       IN  /\ kwargs' = r.kwargs
           /\ warned' = r.warned
    /\ pc' = "resolved"
    /\ UNCHANGED <<self, clip, args, calls, ret, frame, shift, out_sar, loc, ll,
                   resampled, trace, first, out>>

\* KeepArScaler.scale, line 166
HandleCropResizeKwargs ==
    /\ pc = "resolved"
    /\ LET r == _handle_crop_resize_kwargs(frame, args.width, args.height, shift,
                    kwargs["sar"], kwargs["dar"], Del(Del(kwargs, "sar"), "dar"))
       IN  /\ kwargs' = r.kwargs
           /\ shift' = r.out_shift
           /\ out_sar' = r.out_sar
           /\ loc' = [window_in |-> r.window_in, src_sar |-> r.src_sar,
                      src_dar |-> r.src_dar, out_dar |-> r.out_dar, axis |-> r.axis,
                      fix_crop |-> r.fix_crop]
           /\ first' = IF calls = 1
                       THEN [kwargs |-> r.kwargs, out_shift |-> r.out_shift,
                             out_dar |-> r.out_dar]
                       ELSE first
    /\ trace' = Append(trace, "correct")
    /\ pc' = "corrected"
    /\ UNCHANGED <<self, clip, args, calls, ret, frame, warned, ll, resampled, out>>

\* KeepArScaler.scale, lines 168-170: the primitive resample
ScaleFunction ==
    /\ pc = "corrected"
    /\ resampled' = Append(resampled, [clip |-> frame, shift |-> shift, kwargs |-> kwargs,
                                       scope_open |-> ll.open])
    /\ frame' = Resampled(frame, args.width, args.height)
    /\ trace' = Append(trace, "resample")
    /\ pc' = "resampled"
    /\ UNCHANGED <<self, clip, args, calls, ret, kwargs, shift, out_sar, loc, warned, ll,
                   first, out>>

\* KeepArScaler.scale, lines 172-175: the tag is applied and the clip returned,
\* to the caller or to _linear_op.func
ScaleReturn ==
    /\ pc = "resampled"
    /\ frame' = IF TagSet(out_sar) THEN Sar_apply(out_sar, frame) ELSE frame
    /\ trace' = IF TagSet(out_sar) THEN Append(trace, "tag") ELSE trace
    /\ IF ret = "scope"
       THEN pc' = "returned" /\ out' = out
       ELSE pc' = "done" /\ out' = frame'
    /\ UNCHANGED <<self, clip, args, calls, ret, kwargs, shift, out_sar, loc, warned, ll,
                   resampled, first>>

\* The caller scales again, from the crop window and shift the corrector
\* produced, asking for the DAR the corrector aimed at
Reapply ==
    /\ pc = "done"
    /\ ret = "top"
    /\ calls < MaxCalls
    /\ args' = [args EXCEPT !.shift = shift, !.kwargs = kwargs, !.dar = Xar(loc.out_dar)]
    /\ calls' = calls + 1
    /\ pc' = "scale"
    /\ frame' = clip
    /\ kwargs' = kwargs
    /\ out_sar' = PNone
    /\ warned' = FALSE
    /\ resampled' = <<>>
    /\ trace' = <<>>
    /\ out' = NoClip
    /\ UNCHANGED <<self, clip, ret, shift, loc, ll, first>>

NextKeepAr ==
    \/ GetKwargsKeepAr
    \/ HandleCropResizeKwargs
    \/ ScaleFunction
    \/ ScaleReturn

Next ==
    \/ NextKeepAr
    \/ Reapply

NextLinear ==
    \/ LinearOpDirect
    \/ LinearOpScoped
    \/ CustomOp
    \/ ScopeExit
    \/ NextKeepAr

Spec == Init /\ [][Next]_vars
SpecLinear == InitLinear /\ [][NextLinear]_vars

\* ============================================================== properties
Occurs(e) == \E i \in DOMAIN trace : trace[i] = e
\* _handle_crop_resize_kwargs has run in the current call
HasCorrected == Occurs("correct")
\* the window handed to the resample next to the one the corrector received
WindowIn == loc.window_in
WindowOut ==
    [src_top |-> shift[1], src_left |-> shift[2],
     src_width |-> kwargs["src_width"], src_height |-> kwargs["src_height"]]
Half(r) == RDiv(r, Int2Rat(2))
FullFrameIn ==
    /\ WindowIn["src_width"] = Int2Rat(clip.width)
    /\ WindowIn["src_height"] = Int2Rat(clip.height)

\* C1: the corrected window has the centre of the incoming window on both
\* axes: left + width/2 and top + height/2 are unchanged.
C1_CenterKept ==
    HasCorrected =>
        /\ RAdd(WindowOut["src_left"], Half(WindowOut["src_width"]))
             = RAdd(WindowIn["src_left"], Half(WindowIn["src_width"]))
        /\ RAdd(WindowOut["src_top"], Half(WindowOut["src_height"]))
             = RAdd(WindowIn["src_top"], Half(WindowIn["src_height"]))

\* a width adjustment of a window the caller placed away from the origin
C1_Witness ==
    /\ HasCorrected
    /\ loc.axis = "width"
    /\ loc.fix_crop # Zero
    /\ WindowIn["src_left"] # Zero
    /\ WindowIn["src_width"] # Int2Rat(clip.width)

WidthAxisSame ==
    /\ WindowOut["src_left"] = WindowIn["src_left"]
    /\ WindowOut["src_width"] = WindowIn["src_width"]
HeightAxisSame ==
    /\ WindowOut["src_top"] = WindowIn["src_top"]
    /\ WindowOut["src_height"] = WindowIn["src_height"]

\* C2 as claimed: whenever source_dar differs from target_dar the extent of
\* exactly one axis changes, width when source_dar > target_dar and height
\* otherwise, also for a crop window the caller supplied; with equal DARs
\* nothing changes.
C2_Original ==
    HasCorrected =>
        IF loc.src_dar = loc.out_dar THEN WidthAxisSame /\ HeightAxisSame
        ELSE IF RGt(loc.src_dar, loc.out_dar)
             THEN HeightAxisSame /\ WindowOut["src_width"] # WindowIn["src_width"]
             ELSE WidthAxisSame /\ WindowOut["src_height"] # WindowIn["src_height"]

\* C2 amended: at most one axis is adjusted, width when the clip's DAR is
\* above the target DAR, height when below, none when equal; the extent of
\* that axis changes unless the incoming window already has the target
\* aspect, and with the default full-frame window it always changes.
C2_OneAxis ==
    HasCorrected =>
        LET hasAspect == WindowIn["src_width"] = RMul(WindowIn["src_height"], loc.out_dar)
        IN  IF loc.src_dar = loc.out_dar THEN WidthAxisSame /\ HeightAxisSame
            ELSE /\ IF RGt(loc.src_dar, loc.out_dar)
                    THEN /\ HeightAxisSame
                         /\ (WindowOut["src_width"] # WindowIn["src_width"]) <=> ~hasAspect
                    ELSE /\ WidthAxisSame
                         /\ (WindowOut["src_height"] # WindowIn["src_height"]) <=> ~hasAspect
                 /\ FullFrameIn => ~hasAspect

\* DARs differ, the caller's own window already has the target aspect: no trim
C2_Witness ==
    /\ HasCorrected
    /\ loc.src_dar # loc.out_dar
    /\ ~FullFrameIn
    /\ WidthAxisSame /\ HeightAxisSame

ForcedDar == args.dar.kind \in {"Xar", "float"}

\* C3 as claimed: a 1:1 tag is produced exactly when the resolved source SAR
\* is not 1 and the caller forced no DAR; a forced DAR on a non-square source
\* is the target DAR and no tag is produced.
C3_Original ==
    HasCorrected =>
        /\ TagSet(out_sar) <=> (loc.src_sar # RatOne /\ ~ForcedDar)
        /\ TagSet(out_sar) => out_sar.v = RatOne
        /\ (ForcedDar /\ loc.src_sar # RatOne) => loc.out_dar = args.dar.v

Concrete(p) == p.kind \in {"Xar", "float"}

\* C5 as claimed: the resolver warns iff keep_ar is true and both sar and dar
\* are concrete values; in any case it returns resolved sar and dar.
C5_Original ==
    pc \notin {"scale", "linear_op"} /\ calls = 1 =>
        /\ warned <=> (args.keep_ar /\ Concrete(args.sar) /\ Concrete(args.dar))
        /\ pc = "resolved" => kwargs["sar"] # PNone /\ kwargs["dar"] # PNone

\* C7: the corrector applied again to the window and shift it produced, with
\* the target DAR of the first application, changes nothing.
C7_Idempotent ==
    calls >= 2 /\ HasCorrected =>
        /\ loc.fix_crop = Zero
        /\ kwargs["src_width"] = first.kwargs["src_width"]
        /\ kwargs["src_height"] = first.kwargs["src_height"]
        /\ shift = first.out_shift
        /\ WindowOut = WindowIn

\* a second application after a first one that trimmed
C7_Witness ==
    /\ calls = 2
    /\ HasCorrected
    /\ first.kwargs["src_width"] # Int2Rat(clip.width)
    /\ first.out_dar # RatOne

InAnamorphicScenario ==
    /\ clip.width = 720 /\ clip.height = 480 /\ clip.sar = <<8, 9>>
    /\ args.width = 1280 /\ args.height = 720
    /\ args.keep_ar /\ args.sar = PNone /\ args.dar = PNone
    /\ HasCorrected

ScenarioTrim ==
    /\ loc.src_sar = <<8, 9>>
    /\ loc.out_dar = Rat(1280 * 9, 720 * 8)
    /\ out_sar = Xar(RatOne)
    /\ loc.fix_crop # Zero
    /\ loc.axis = TrimAxis(loc.src_dar, loc.out_dar)
    /\ IF loc.axis = "width"
       THEN HeightAxisSame /\ WindowOut["src_width"] # WindowIn["src_width"]
       ELSE WidthAxisSame /\ WindowOut["src_height"] # WindowIn["src_height"]

InLetterboxScenario ==
    /\ clip.width = 1920 /\ clip.height = 1080
    /\ args.width = 1920 /\ args.height = 800
    /\ loc.src_sar = RatOne
    /\ args.shift = <<Zero, Zero>>
    /\ HasCorrected
    /\ calls = 1

LetterboxTrim ==
    /\ loc.axis = "height"
    /\ loc.fix_crop = Int2Rat(280)
    /\ WindowOut["src_top"] = Int2Rat(140)
    /\ WindowOut["src_height"] = RSub(Int2Rat(1080), Int2Rat(280))
    /\ WidthAxisSame

\* C9 as claimed: 1920x1080 with SAR 1 to 1920x800, dar unset or auto: the
\* height is trimmed by 280 and src_top raised by 140.
C9_Original ==
    InLetterboxScenario /\ args.dar.kind \in {"None", "True"} => LetterboxTrim

\* C9 amended: the trim happens when dar resolves to auto, that is dar=True
\* or dar unset with keep_ar=True; dar unset with keep_ar=False resolves to
\* disabled and the window is left alone.
C9_Scenario ==
    InLetterboxScenario =>
        /\ (args.dar = PTrue \/ (args.dar = PNone /\ args.keep_ar)) => LetterboxTrim
        /\ (args.dar = PNone /\ ~args.keep_ar) =>
               loc.axis = "none" /\ WidthAxisSame /\ HeightAxisSame

C9_Witness ==
    /\ InLetterboxScenario
    /\ args.dar = PNone
    /\ args.keep_ar
    /\ WindowOut["src_top"] = Int2Rat(140)

\* C10: with positive sizes, SAR and DAR the corrected window has positive
\* width and height, whatever the sign of the excess; from the default
\* full-frame window the excess is never negative and the corrected window
\* lies inside the incoming one.
C10_Positive ==
    HasCorrected =>
        /\ RGt(WindowOut["src_width"], Zero)
        /\ RGt(WindowOut["src_height"], Zero)
        /\ FullFrameIn =>
            /\ RLe(Zero, loc.fix_crop)
            /\ RLe(WindowIn["src_left"], WindowOut["src_left"])
            /\ RLe(WindowIn["src_top"], WindowOut["src_top"])
            /\ RLe(RAdd(WindowOut["src_left"], WindowOut["src_width"]),
                   RAdd(WindowIn["src_left"], WindowIn["src_width"]))
            /\ RLe(RAdd(WindowOut["src_top"], WindowOut["src_height"]),
                   RAdd(WindowIn["src_top"], WindowIn["src_height"]))

\* a negative excess: the caller's window grows and stays positive
C10_Witness ==
    /\ HasCorrected
    /\ RLt(loc.fix_crop, Zero)
    /\ RGt(WindowOut["src_width"], WindowIn["src_width"])

ScopeEntered == Occurs("enter")
\* the wrapped operation received the caller's clip and keyword dict as they were
RanOnInput ==
    /\ ret = "direct"
    /\ ~ll.open
    /\ pc = "scale" => frame = clip /\ kwargs = args.kwargs
    /\ \A i \in DOMAIN resampled : resampled[i].clip = clip /\ ~resampled[i].scope_open

\* C4 as claimed: however the kernel was constructed, a truthy sigmoid
\* argument, a set linear argument or a _linear_<op> override enters the
\* scope, and with neither argument set and no override the operation runs
\* directly on the unmodified input.
C4_Original ==
    pc # "linear_op" =>
        /\ (Truthy(args.sigmoid) \/ Truthy(args.linear) \/ self.custom) => ScopeEntered
        /\ (~Truthy(args.sigmoid) /\ ~Truthy(args.linear) /\ ~self.custom) =>
               ~ScopeEntered /\ RanOnInput

\* C4 amended: the scope is entered exactly when the sigmoid in force (the
\* constructor's sigmoid keyword when given, else the call's) is truthy, the
\* constructor's or the call's linear is truthy, or an override exists;
\* otherwise the operation runs directly on the unmodified input.
C4_ScopeRule ==
    pc # "linear_op" =>
        LET ctor == self.orig_kwargs
            inforce == IF "sigmoid" \in DOMAIN ctor THEN ctor["sigmoid"] ELSE args.sigmoid
            wanted == \/ inforce \in {"True", "pair"}
                      \/ args.linear = "True"
                      \/ ("linear" \in DOMAIN ctor /\ ctor["linear"] = "True")
                      \/ self.custom
        IN  /\ wanted <=> ScopeEntered
            /\ ~wanted => RanOnInput

\* linear=False and sigmoid=True on a kernel built without keywords: in scope
C4_Witness ==
    /\ pc = "resolved"
    /\ self.orig_kwargs = EmptyDict
    /\ ~self.custom
    /\ args.linear = "False"
    /\ args.sigmoid = "True"
    /\ ll.open
    /\ frame.space = "linear"

\* linear mode, asked for at construction or in the call
LinearMode ==
    \/ args.linear = "True"
    \/ Get(self.orig_kwargs, "linear", "False") = "True"
    \/ Get(self.orig_kwargs, "sigmoid", args.sigmoid) # "False"

IsPrefix(p, q) == Len(p) <= Len(q) /\ \A i \in 1..Len(p) : p[i] = q[i]

\* C6: in a composed scale call in linear mode the scope is entered first,
\* then the corrector runs, then the resample runs once, inside the scope, on
\* the linearized clip with the corrected crop and shift, then the recorded
\* tag is applied, and then the scope is left and the result converted back.
C6_Order ==
    (pc # "linear_op" /\ LinearMode /\ ~self.custom) =>
        LET tagged == TagSet(out_sar)
            whole == IF tagged
                     THEN <<"enter", "correct", "resample", "tag", "exit">>
                     ELSE <<"enter", "correct", "resample", "exit">>
        IN  /\ Len(trace) >= 1
            /\ IsPrefix(trace, whole)
            /\ pc = "done" <=> trace = whole
            /\ Len(resampled) = (IF Occurs("resample") THEN 1 ELSE 0)
            /\ \A i \in DOMAIN resampled :
                   /\ resampled[i].scope_open
                   /\ resampled[i].clip = [clip EXCEPT !.space = "linear"]
                   /\ resampled[i].shift = shift
                   /\ resampled[i].kwargs = kwargs
                   /\ HasCorrected
            /\ ll.open <=> pc # "done"
            /\ pc = "done" =>
                   /\ out.space = clip.space
                   /\ out.width = args.width /\ out.height = args.height
                   /\ out.sar = (IF tagged THEN RatOne ELSE clip.sar)

\* a tagged result leaving the scope
C6_Witness ==
    /\ pc = "done"
    /\ LinearMode
    /\ ~self.custom
    /\ trace = <<"enter", "correct", "resample", "tag", "exit">>
    /\ clip.sar # RatOne
    /\ out.sar = RatOne

====
